---- MODULE Spec2Model ----
(***************************************************************************)
(* Model of fuzz/gosigfuzz/gosigfuzz.c: the libFuzzer start-up hook        *)
(* LLVMFuzzerInitialize, which re-registers ten signals with SA_ONSTACK    *)
(* added to their dispositions.                                            *)
(*                                                                         *)
(* The state is the process-wide signal table owned by the kernel, the     *)
(* locals of fixSignalHandler (old_action, new_action), the position of    *)
(* the single thread in the straight-line code, and the hook's arguments   *)
(* and return value.  One step of the model is one sigaction system call   *)
(* together with the user-space statements that precede it.                *)
(***************************************************************************)
EXTENDS Integers, Sequences, FiniteSets, TLC

VARIABLES
    sigtab,      \* kernel table: signal -> installed struct sigaction
    before,      \* sigtab as it was when the running (or last) call was entered
    pc,          \* "idle" | "query" | "install" | "return"
    idx,         \* which fixSignalHandler call of FixStackSignalHandler runs (1..10)
    old_action,  \* local of fixSignalHandler
    new_action,  \* local of fixSignalHandler
    argc,        \* *argc of the caller
    argv,        \* *argv of the caller
    ret,         \* value returned by the last LLVMFuzzerInitialize, "none" before
    calls,       \* number of completed LLVMFuzzerInitialize calls
    failures,    \* number of sigaction calls that returned -1
    qfailures,   \* number of those that were queries
    log,         \* sigaction calls made by the running (or last) call, in order
    arg_access   \* accesses made through the parameters argc and argv

vars == <<sigtab, before, pc, idx, old_action, new_action, argc, argv, ret,
          calls, failures, qfailures, log, arg_access>>

----------------------------------------------------------------------------
(* Bounds of the model. *)

\* at most this many signals start with a non-default disposition
MaxCustom == 1

\* LLVMFuzzerInitialize is entered at most this many times
MaxCalls == 2

\* at most this many sigaction calls fail (SpecFail only)
MaxFailures == 2

\* at most this many of them are queries (SpecFail only)
MaxQueryFailures == 1

----------------------------------------------------------------------------
(* Signals and dispositions. *)

SA_ONSTACK == "SA_ONSTACK"

\* The flag the C library's sigaction sets, with its own signal-return
\* trampoline, on every disposition it installs (x86-64 glibc); it is part
\* of the flags the kernel stores and of the flags a query reports.
SA_RESTORER == "SA_RESTORER"

\* Faulty variants of the call list (one call too many; two calls swapped),
\* against which the properties about the list are tested.
OrderWithHup ==
    << "SIGSEGV", "SIGABRT", "SIGALRM", "SIGINT", "SIGTERM",
       "SIGBUS", "SIGFPE", "SIGXFSZ", "SIGUSR1", "SIGUSR2", "SIGHUP" >>
OrderSwapped ==
    << "SIGSEGV", "SIGABRT", "SIGALRM", "SIGINT", "SIGTERM",
       "SIGBUS", "SIGFPE", "SIGXFSZ", "SIGUSR2", "SIGUSR1" >>

\* The calls of FixStackSignalHandler, in program order.
Order ==
    << "SIGSEGV", "SIGABRT", "SIGALRM", "SIGINT", "SIGTERM",
       "SIGBUS", "SIGFPE", "SIGXFSZ", "SIGUSR1", "SIGUSR2" >>

\* Signals the code never names; they share the kernel table.
OtherSignals == { "SIGHUP", "SIGPIPE" }

Signals == { Order[i] : i \in 1..Len(Order) } \cup OtherSignals

\* struct sigaction.  sa_handler stands for the storage shared by the
\* sa_handler and sa_sigaction members (a one-argument handler, a
\* three-argument handler, SIG_DFL or SIG_IGN).
DefaultAction == [ sa_handler |-> "SIG_DFL", sa_flags |-> {}, sa_mask |-> {} ]

\* Non-default dispositions a process may have installed before the hook
\* runs, through the C library (SA_RESTORER set) or with the bare system call.
CustomActions ==
    { [ sa_handler |-> "SIG_IGN",  sa_flags |-> {},                          sa_mask |-> {} ],
      [ sa_handler |-> "SIG_DFL",  sa_flags |-> {"SA_RESTART"},              sa_mask |-> {"SIGHUP"} ],
      [ sa_handler |-> "handler1", sa_flags |-> {},                          sa_mask |-> {} ],
      [ sa_handler |-> "handler1", sa_flags |-> {"SA_RESTART"},              sa_mask |-> {"SIGHUP", "SIGINT"} ],
      [ sa_handler |-> "handler1", sa_flags |-> {SA_ONSTACK},                sa_mask |-> {"SIGTERM"} ],
      [ sa_handler |-> "action3",  sa_flags |-> {"SA_SIGINFO"},              sa_mask |-> {} ],
      [ sa_handler |-> "action3",  sa_flags |-> {"SA_SIGINFO", "SA_NODEFER"}, sa_mask |-> {"SIGUSR1"} ],
      [ sa_handler |-> "action3",  sa_flags |-> {"SA_SIGINFO", SA_ONSTACK, SA_RESTORER},
                                    sa_mask  |-> {"SIGINT", "SIGPIPE"} ] }

\* A struct sigaction local that nothing has written since its function
\* was entered: each member is indeterminate ("undef") until it is read.
Uninit == [ sa_handler |-> "undef", sa_flags |-> { "undef" }, sa_mask |-> { "undef" } ]

\* The nine flags the kernel stores and reports.
KernelFlags ==
    { "SA_NOCLDSTOP", "SA_NOCLDWAIT", "SA_SIGINFO", SA_ONSTACK, SA_RESTORER,
      "SA_RESTART", "SA_NODEFER", "SA_RESETHAND", "SA_EXPOSE_TAGBITS" }

\* The values of an int flag word: any of the nine flags, with or without
\* bits that are none of them ("other bits").
FlagWords == SUBSET (KernelFlags \cup { "other bits" })

\* Values the read members of an indeterminate old_action can turn out to
\* hold: a handler word that is 0 (SIG_DFL), 1 (SIG_IGN), the address of a
\* handler of the process or any other word ("wild"), with any flag word.
\* sa_mask is never read from old_action and stays indeterminate.
GarbageActions ==
    { [ sa_handler |-> h, sa_flags |-> f, sa_mask |-> { "undef" } ] :
        h \in { "SIG_DFL", "SIG_IGN", "handler1", "action3", "wild" },
        f \in FlagWords }

\* Values of the caller's argument vector.
ArgVectors == { <<"fuzzer">>, <<"fuzzer", "-runs=1">> }

----------------------------------------------------------------------------
(* fixSignalHandler, statement by statement. *)

\* sigemptyset(&new_action.sa_mask): the other members stay as they were.
SigEmptySet(act) == [ act EXCEPT !.sa_mask = {} ]

\* Faulty variants of the flag computation: flag not added, flags
\* overwritten (= instead of |), flag toggled (^ instead of |).
NewFlagsNone(old_flags) == old_flags
NewFlagsOnly(old_flags) == { SA_ONSTACK }
NewFlagsToggle(old_flags) ==
    IF SA_ONSTACK \in old_flags THEN old_flags \ { SA_ONSTACK }
                                ELSE old_flags \cup { SA_ONSTACK }

\* old_action.sa_flags | SA_ONSTACK
NewFlags(old_flags) == old_flags \cup { SA_ONSTACK }

\* Faulty variants of the assignments: handler reset to SIG_DFL, handler
\* not copied, whole old_action copied (mask included).
NewActionDefaultHandler(old, new) ==
    [ new EXCEPT !.sa_flags = NewFlags(old.sa_flags), !.sa_handler = "SIG_DFL" ]
NewActionNoHandler(old, new) ==
    [ new EXCEPT !.sa_flags = NewFlags(old.sa_flags) ]
NewActionKeepMask(old, new) ==
    [ old EXCEPT !.sa_flags = NewFlags(old.sa_flags) ]

\* new_action after the three assignments that follow the query.  The two
\* handler members overlap, so the second assignment rewrites the storage
\* the first one wrote, with the same value.
NewAction(old, new) ==
    LET a1 == [ new EXCEPT !.sa_flags   = NewFlags(old.sa_flags) ]
        a2 == [ a1  EXCEPT !.sa_handler = old.sa_handler ]  \* via sa_sigaction
        a3 == [ a2  EXCEPT !.sa_handler = old.sa_handler ]
    IN  a3

\* What the reads of old_action.sa_flags and old_action.sa_handler yield.
\* After a successful query, what the query wrote.  After a failed query
\* the object is unwritten and its value indeterminate: the reads yield
\* any handler word and any flag word (what an earlier call left on the
\* stack, zeros, a fill pattern, any other bytes).
ReadOld(act) == IF act.sa_handler = "undef" THEN GarbageActions ELSE { act }

\* Faulty variant of the install: the wrapper's flag is not stored.
SigactionInstallPlain(act) == act

\* sigaction(signum, &new_action, NULL): the disposition the kernel stores
\* is the one passed with SA_RESTORER set by the C library and with the
\* bits that are none of the nine flags cleared.
SigactionInstall(act) ==
    [ act EXCEPT !.sa_flags = (@ \cap KernelFlags) \cup { SA_RESTORER } ]

\* Faulty variant of the return value: a failed sigaction is reported.
ReturnValueOnFailure == IF failures > 0 THEN -1 ELSE 0

\* The value LLVMFuzzerInitialize returns.
ReturnValue == 0

\* The accesses the body of LLVMFuzzerInitialize makes through its
\* parameters: it names neither, and FixStackSignalHandler takes none.
ArgAccess == {}

----------------------------------------------------------------------------
(* Initial states. *)

\* Signal tables in which at most MaxCustom signals have a non-default
\* disposition.
Tables ==
    UNION { { [ s \in Signals |-> IF s \in C THEN f[s] ELSE DefaultAction ] :
                f \in [ C -> CustomActions ] } :
            C \in { X \in SUBSET Signals : Cardinality(X) <= MaxCustom } }

Init ==
    /\ sigtab \in Tables
    /\ before = sigtab
    /\ pc = "idle"
    /\ idx = 0
    /\ old_action = Uninit
    /\ new_action = Uninit
    /\ argv \in ArgVectors
    /\ argc = Len(argv)
    /\ ret = "none"
    /\ calls = 0
    /\ failures = 0
    /\ qfailures = 0
    /\ log = << >>
    /\ arg_access = {}

----------------------------------------------------------------------------
(* Steps. *)

\* The fuzzing engine enters LLVMFuzzerInitialize; FixStackSignalHandler
\* enters the first fixSignalHandler, whose locals are fresh automatic
\* objects that nothing has initialised.
Call ==
    /\ pc = "idle"
    /\ calls < MaxCalls
    /\ pc' = "query"
    /\ idx' = 1
    /\ before' = sigtab
    /\ old_action' = Uninit
    /\ new_action' = Uninit
    /\ log' = << >>
    /\ ret' = "none"
    /\ arg_access' = arg_access \cup ArgAccess
    /\ UNCHANGED <<sigtab, argc, argv, calls, failures, qfailures>>

\* sigemptyset(&new_action.sa_mask); sigaction(signum, NULL, &old_action);
Query ==
    /\ pc = "query"
    /\ new_action' = SigEmptySet(new_action)
    /\ old_action' = sigtab[Order[idx]]
    /\ log' = Append(log, << "query", Order[idx] >>)
    /\ pc' = "install"
    /\ UNCHANGED <<sigtab, before, idx, argc, argv, ret, calls, failures, qfailures,
                   arg_access>>

\* After an install: fixSignalHandler returns and its locals end; then the
\* next fixSignalHandler call, whose old_action and new_action are fresh
\* objects that nothing has initialised, or the end of
\* FixStackSignalHandler.
Advance ==
    /\ IF idx < Len(Order)
          THEN /\ idx' = idx + 1
               /\ pc' = "query"
          ELSE /\ idx' = idx
               /\ pc' = "return"
    /\ old_action' = Uninit
    /\ new_action' = Uninit

\* new_action.sa_flags = ...; new_action.sa_sigaction = ...;
\* new_action.sa_handler = ...; sigaction(signum, &new_action, NULL);
\* The three assignments read old_action.
Install ==
    /\ pc = "install"
    /\ \E old \in ReadOld(old_action) :
          sigtab' = [ sigtab EXCEPT
                         ![Order[idx]] = SigactionInstall(NewAction(old, new_action)) ]
    /\ log' = Append(log, << "install", Order[idx] >>)
    /\ Advance
    /\ UNCHANGED <<before, argc, argv, ret, calls, failures, qfailures, arg_access>>

\* return 0;
Return ==
    /\ pc = "return"
    /\ ret' = ReturnValue
    /\ calls' = calls + 1
    /\ pc' = "idle"
    /\ idx' = 0
    /\ UNCHANGED <<sigtab, before, old_action, new_action, argc, argv, failures,
                   qfailures, log, arg_access>>

\* The query returns -1 and writes nothing to old_action.  The code does
\* not test the result and goes on.
QueryFail ==
    /\ pc = "query"
    /\ failures < MaxFailures
    /\ qfailures < MaxQueryFailures
    /\ failures' = failures + 1
    /\ qfailures' = qfailures + 1
    /\ new_action' = SigEmptySet(new_action)
    /\ log' = Append(log, << "query", Order[idx] >>)
    /\ pc' = "install"
    /\ UNCHANGED <<sigtab, before, idx, old_action, argc, argv, ret, calls, arg_access>>

\* The three assignments run as in Install, then the install returns -1:
\* the table is left as it was, and what the assignments read ends with
\* the locals.
InstallFail ==
    /\ pc = "install"
    /\ failures < MaxFailures
    /\ failures' = failures + 1
    /\ log' = Append(log, << "install", Order[idx] >>)
    /\ Advance
    /\ UNCHANGED <<sigtab, before, argc, argv, ret, calls, qfailures, arg_access>>

Step == Query \/ Install \/ Return

Next == Call \/ Query \/ Install \/ Return

\* Every sigaction call succeeds: the ten signals are valid and catchable
\* and both pointers are valid, so the call has no error to report.
Spec == Init /\ [][Next]_vars

\* The thread keeps running until the hook returns; nothing obliges the
\* engine to call the hook again.
FairSpec == Spec /\ WF_vars(Step)

\* The engine's one call of the hook at process start.
FirstCall == calls = 0 /\ Call

\* One run of the hook when sigaction calls may fail, started with every
\* signal at its default or with SIGINT handled.
InitFail ==
    /\ Init
    /\ \A s \in Signals : sigtab[s] = DefaultAction \/ s = "SIGINT"
    /\ sigtab["SIGINT"] = DefaultAction \/ sigtab["SIGINT"].sa_handler = "handler1"
    /\ sigtab["SIGINT"].sa_flags \subseteq { "SA_RESTART" }

NextFail == FirstCall \/ Query \/ Install \/ Return \/ QueryFail \/ InstallFail

SpecFail == InitFail /\ [][NextFail]_vars

----------------------------------------------------------------------------
(* Vocabulary of the properties. *)

\* The ten signals, as the properties list them.
FixedSignals ==
    { "SIGSEGV", "SIGABRT", "SIGALRM", "SIGINT", "SIGTERM",
      "SIGBUS", "SIGFPE", "SIGXFSZ", "SIGUSR1", "SIGUSR2" }

FixedOrder ==
    << "SIGSEGV", "SIGABRT", "SIGALRM", "SIGINT", "SIGTERM",
       "SIGBUS", "SIGFPE", "SIGXFSZ", "SIGUSR1", "SIGUSR2" >>

\* LLVMFuzzerInitialize has returned and is not running.
Returned == pc = "idle" /\ calls >= 1

\* The signals whose fixSignalHandler call of the running (or last)
\* LLVMFuzzerInitialize has returned.
Processed ==
    CASE pc = "idle"   -> IF calls >= 1 THEN FixedSignals ELSE {}
      [] pc = "return" -> FixedSignals
      [] OTHER         -> { FixedOrder[i] : i \in 1..(idx - 1) }

\* One query and then one install per signal, in the fixed order.
ExpectedLog ==
    [ k \in 1..(2 * Len(FixedOrder)) |->
        << IF k % 2 = 1 THEN "query" ELSE "install", FixedOrder[(k + 1) \div 2] >> ]

----------------------------------------------------------------------------
(* Properties. *)

\* C1: after LLVMFuzzerInitialize returns, each of the ten fixed signals
\* has SA_ONSTACK in its installed flags, whatever was installed before.
C1_OnStackSet ==
    Returned => \A s \in FixedSignals : SA_ONSTACK \in sigtab[s].sa_flags

C1_Witness ==
    /\ Returned
    /\ calls = 1
    /\ \E s \in FixedSignals :
          /\ before[s].sa_handler = "handler1"
          /\ SA_ONSTACK \notin before[s].sa_flags
          /\ SA_ONSTACK \in sigtab[s].sa_flags

\* C2: after LLVMFuzzerInitialize returns, each fixed signal has the
\* handler it had when the call was entered (SIG_DFL, SIG_IGN, a
\* one-argument handler or a three-argument SA_SIGINFO handler).
C2_HandlerPreserved ==
    Returned => \A s \in FixedSignals : sigtab[s].sa_handler = before[s].sa_handler

C2_Witness ==
    /\ Returned
    /\ calls = 1
    /\ \E s \in FixedSignals :
          /\ before[s].sa_handler = "action3"
          /\ "SA_SIGINFO" \in before[s].sa_flags
          /\ sigtab[s] # before[s]

\* C3 as stated: after LLVMFuzzerInitialize returns, the flags of each
\* fixed signal are the flags it had when the call was entered together
\* with SA_ONSTACK: nothing else is added and nothing is removed.
C3_FlagsUnion ==
    Returned =>
        \A s \in FixedSignals : sigtab[s].sa_flags = before[s].sa_flags \cup { SA_ONSTACK }

\* C3 as amended: after LLVMFuzzerInitialize returns, the flags of each
\* fixed signal contain the flags it had when the call was entered and
\* SA_ONSTACK, and nothing beyond these except SA_RESTORER, which the C
\* library's sigaction sets on what it installs.
C3_FlagsUnionRestorer ==
    Returned =>
        \A s \in FixedSignals :
            /\ before[s].sa_flags \cup { SA_ONSTACK } \subseteq sigtab[s].sa_flags
            /\ sigtab[s].sa_flags \subseteq before[s].sa_flags \cup { SA_ONSTACK, SA_RESTORER }

C3_Witness ==
    /\ Returned
    /\ calls = 1
    /\ \E s \in FixedSignals :
          /\ before[s].sa_flags = { "SA_SIGINFO", "SA_NODEFER" }
          /\ sigtab[s].sa_flags = { "SA_SIGINFO", "SA_NODEFER", SA_ONSTACK, SA_RESTORER }

\* C4: the configuration fixSignalHandler reinstalls is the one it read
\* with the alternate-stack flag added: the flags read are kept and
\* SA_ONSTACK is among them, and every other component, the handler and
\* sa_mask, is as before.  (Which flags an install adds is the subject of
\* C3.)
C4_ConfigurationPreserved ==
    \A s \in Processed :
        /\ before[s].sa_flags \cup { SA_ONSTACK } \subseteq sigtab[s].sa_flags
        /\ sigtab[s].sa_handler = before[s].sa_handler
        /\ sigtab[s].sa_mask = before[s].sa_mask

\* C5: LLVMFuzzerInitialize returns 0 whichever of its sigaction calls
\* succeed or fail and whatever argc and argv hold; it makes no access
\* through argc or argv and leaves what they point to unchanged.
C5_AlwaysReturnsZero ==
    /\ [](Returned => ret = 0)
    /\ [](arg_access = {})
    /\ [][argc' = argc /\ argv' = argv]_vars

C5_Witness ==
    /\ Returned
    /\ failures >= 2
    /\ ret = 0
    /\ argc = 2
    /\ sigtab["SIGSEGV"].sa_handler = "wild"
    /\ SA_ONSTACK \notin sigtab["SIGUSR2"].sa_flags

\* C6: after LLVMFuzzerInitialize returns, every signal outside the ten
\* fixed ones has the handler, flags and mask it had when the call was
\* entered.
C6_OtherSignalsUntouched ==
    Returned => \A s \in Signals \ FixedSignals : sigtab[s] = before[s]

C6_Witness ==
    /\ Returned
    /\ calls = 1
    /\ before["SIGHUP"] # DefaultAction
    /\ sigtab["SIGHUP"] = before["SIGHUP"]
    /\ \A s \in FixedSignals : sigtab[s] # before[s]

\* C7: every call of LLVMFuzzerInitialize returns, and the sigaction calls
\* it makes are one query followed by one install for each of the ten
\* signals in the fixed order: at every moment the calls made so far are a
\* prefix of that sequence, and at the return they are all of it.
C7_TerminatesInOrder ==
    /\ [](/\ Len(log) <= Len(ExpectedLog)
          /\ log = SubSeq(ExpectedLog, 1, Len(log)))
    /\ [](Returned => log = ExpectedLog)
    /\ ((pc # "idle") ~> (pc = "idle"))

C7_Witness ==
    /\ Returned
    /\ calls = 1
    /\ Len(log) = 20
    /\ \A s \in FixedSignals : SA_ONSTACK \in sigtab[s].sa_flags

\* C8: a second call of LLVMFuzzerInitialize leaves every signal as the
\* first call left it; each fixed signal then enters the call with
\* SA_ONSTACK already set and keeps its handler, flags and mask.
C8_Idempotent ==
    (Returned /\ calls >= 2) =>
        /\ sigtab = before
        /\ \A s \in FixedSignals : SA_ONSTACK \in before[s].sa_flags

C8_Witness ==
    /\ Returned
    /\ calls = 2
    /\ sigtab = before
    /\ \E s \in FixedSignals :
          /\ sigtab[s].sa_handler = "action3"
          /\ sigtab[s].sa_flags = { "SA_SIGINFO", "SA_NODEFER", SA_ONSTACK, SA_RESTORER }

\* C9: once fixSignalHandler(signum) has returned, the installed sa_mask of
\* signum is empty, whatever mask was installed before.
C9_MaskEmptied ==
    \A s \in Processed : sigtab[s].sa_mask = {}

C9_Witness ==
    /\ calls = 0
    /\ pc = "query"
    /\ \E s \in Processed :
          /\ before[s].sa_mask = { "SIGHUP", "SIGINT" }
          /\ sigtab[s].sa_mask = {}

\* C10: in every state, also between two steps of the initialization, each
\* signal's installed handler is the one installed when the call was
\* entered; and no step clears a signal's SA_ONSTACK flag.
C10_HandlerStableThroughout ==
    /\ [](\A s \in Signals : sigtab[s].sa_handler = before[s].sa_handler)
    /\ [][\A s \in Signals :
              SA_ONSTACK \in sigtab[s].sa_flags => SA_ONSTACK \in sigtab'[s].sa_flags]_vars

C10_Witness ==
    /\ calls = 0
    /\ pc = "install"
    /\ idx = 5
    /\ sigtab # before
    /\ \E s \in Processed :
          /\ before[s].sa_handler = "handler1"
          /\ sigtab[s].sa_handler = "handler1"
          /\ SA_ONSTACK \in sigtab[s].sa_flags

====
